---- MODULE Spec2Model ----
(***************************************************************************)
(* Lucid AI dream journal: the App state machine (App.tsx), the            *)
(* DreamRecorder capture session (components/DreamRecorder.tsx), the       *)
(* analysis join (services/geminiService.ts) and the voice input of        *)
(* ChatInterface (components/ChatInterface.tsx).                           *)
(*                                                                         *)
(* Execution model.  JavaScript runs one handler segment at a time; an     *)
(* async function is cut at each await.  Every action below is one such    *)
(* segment (an event handler, a callback, or the continuation of an await) *)
(* followed by the React commit it schedules and the effects of that       *)
(* commit.  A useCallback closure sees the state of the render that made   *)
(* it, so a call carries the captured value explicitly.  Resources         *)
(* (microphone stream, live session, audio context, graph nodes, animation *)
(* frame loop) are named by the run of startRecording that acquired them;  *)
(* a ref holds 0 (null) or the number of the run whose resource it holds.  *)
(***************************************************************************)
EXTENDS Integers, Sequences, FiniteSets, TLC

\* Bounds of the model.
MaxStarts == 2      \* runs of startRecording
MaxMsgs == 2        \* transcription messages delivered by live sessions
MaxInst == 2        \* mounts of the DreamRecorder component
MaxVoice == 2       \* runs of startVoiceRecording of one ChatInterface
MaxSends == 2       \* calls of handleSend of one ChatInterface
MaxSendVoice == 1   \* runs of startVoiceRecording where messages are sent

VoiceRuns == 1..MaxVoice

Runs == 1..MaxStarts
Insts == 1..MaxInst

\* A string is a sequence of characters; the texts a message may carry.
Texts == {<<"a">>, <<" ">>}
EmptyStr == <<>>

RECURSIVE TrimStart(_)
TrimStart(s) == IF s # <<>> /\ Head(s) = " " THEN TrimStart(Tail(s)) ELSE s

RECURSIVE TrimEnd(_)
TrimEnd(s) ==
  IF s # <<>> /\ s[Len(s)] = " " THEN TrimEnd(SubSeq(s, 1, Len(s) - 1)) ELSE s

\* String.prototype.trim
Trim(s) == TrimEnd(TrimStart(s))

VARIABLES
  appState,        \* App: AppState
  currentDream,    \* App: DreamEntry | null
  allDreams,       \* App: DreamEntry[]
  error,           \* App: string | null
  storage,         \* localStorage[DREAMS_KEY]
  now,             \* Date.now()
  cur,             \* the mounted (or last mounted) DreamRecorder instance
  isRecording,     \* DreamRecorder state of instance cur
  interimTranscription, \* DreamRecorder state of instance cur
  sensitivity,     \* DreamRecorder state of instance cur
  refs,            \* DreamRecorder useRef cells, per instance
  runs,            \* per run of startRecording: its closure and what it acquired
  stops,           \* runs of stopRecording suspended at an await
  analyses,        \* runs of handleRecordingComplete suspended at generateDreamAnalysis
  msgs,            \* messages delivered so far (bounded by MaxMsgs)
  ev,              \* history: the last handler segment that ran
  regens,          \* DreamAnalysis: runs of handleRegenerate, started and suspended
  chat,            \* the ChatInterface instance of the VIEWING view
  pcm              \* the audio buffer onaudioprocess was given, and the Blob made of it

appVars == <<appState, currentDream, allDreams, error, storage, now, cur, isRecording,
             interimTranscription, sensitivity, refs, runs, stops, analyses, msgs, ev,
             regens>>

vars == <<appVars, chat, pcm>>

\* AppState (types.ts)
IDLE == "IDLE"
RECORDING == "RECORDING"
ANALYZING == "ANALYZING"
VIEWING == "VIEWING"

\* The error strings App sets.
ErrEmpty == "The recording was empty. Please try again."
ErrAnalysis == "There was an error analyzing your dream. Please check your API key and try again."
NoError == "null"

\* currentDream = null
NoDream ==
  [id |-> -1, date |-> -1, transcription |-> <<>>, imageUrl |-> 0,
   interpretation |-> "", isFavorite |-> FALSE]

\* useState(1.0): the sensitivity of a new DreamRecorder; the values of the slider
\* that the model tells apart.
DefaultSensitivity == 1
Sensitivities == {DefaultSensitivity, 2}

\* useRef initial values of DreamRecorder.
NullRefs ==
  [sessionPromise |-> 0, audioContext |-> 0, scriptProcessor |-> 0, mediaStream |-> 0,
   transcription |-> EmptyStr, gainNode |-> 0, analyserNode |-> 0, animationFrameId |-> 0]

\* A run of startRecording that has not happened yet.
\*   inst: the component instance whose refs its closures hold
\*   phase: "unused" | "gum" (awaiting getUserMedia) | "denied" | "done"
\*   stopCaptured: isRecording as seen by the stopRecording its onerror calls
\*   stream: "none" | "live" | "stopped";  sess: "none" | "connecting" | "open" |
\*   "broken" (open, after an error) | "closed" | "failed" (never opens) |
\*   "rejected" (connect promise rejected)
\*   ctx: "none" | "running" | "closing" | "closed";  nodes: "none" | "connected" |
\*   "disconnected";  raf: a visualize frame is pending
\*   trackStops, ctxCloses, sessCloses: calls of track.stop(), close(), session.close()
\*   said (history): the final texts received since this run started, until the
\*   stopRecording that ends it has delivered (over)
\*   heard (history): the texts of those final messages, one by one
\*   sensitivity: the sensitivity its closures captured;  gain: gain.value of its
\*   gain node (0 while it has none)
NoRun ==
  [inst |-> 0, phase |-> "unused", stopCaptured |-> FALSE,
   sensitivity |-> DefaultSensitivity, gain |-> 0,
   stream |-> "none", sess |-> "none", ctx |-> "none",
   scriptProcessor |-> "none", gainNode |-> "none", analyserNode |-> "none",
   raf |-> FALSE,
   trackStops |-> 0, ctxCloses |-> 0, sessCloses |-> 0, said |-> EmptyStr,
   over |-> FALSE, heard |-> <<>>]

\* log (history): at "complete", the release steps of that stopRecording run in
\* the order they were made.
\* wrote (history): what the segment did to the stored item: "none" | "ok" (setItem) |
\* "failed" (setItem or getItem threw, caught) | "removed" (removeItem)
\* arg (history): at "complete", the transcript delivered; at "analysisResolved",
\* the request that settled first; at "interim", the text of the message.
NoEv ==
  [op |-> "init", k |-> 0, arg |-> EmptyStr, auto |-> FALSE, log |-> <<>>,
   wrote |-> "none"]

\* No handleRegenerate has run: the number started, and those suspended at
\* generateDreamImage, each with the dream prop and the allDreams of the render
\* whose closures it holds, and whether its DreamAnalysis is still mounted.
NoRegens == [started |-> 0, pending |-> {}]

\* ChatInterface (components/ChatInterface.tsx): its state, its useRef cells, the
\* runs of startVoiceRecording (as NoRun, without the gain and analyser stage)
\* and the runs of stopVoiceRecording suspended at an await, in call order.
NoVoiceRun ==
  [phase |-> "unused", stopCaptured |-> FALSE, stream |-> "none", sess |-> "none",
   ctx |-> "none", scriptProcessor |-> "none",
   trackStops |-> 0, ctxCloses |-> 0, sessCloses |-> 0]

NullChatRefs ==
  [sessionPromise |-> 0, audioContext |-> 0, scriptProcessor |-> 0, mediaStream |-> 0]

\* No handleSend awaits a stopVoiceRecording; one that does holds the input and
\* the isLoading of the render whose closure it is.
NoSend == [awaiting |-> FALSE, input |-> EmptyStr, isLoading |-> FALSE]

\* The text of the message shown when sendMessage fails, and a reply.
Apology == <<"S", "o", "r", "r", "y">>
Replies == {<<"r">>}

\* chatRef holds 0 (null) or the number of the chat session; requests are the
\* sendMessage calls that have not settled, in call order; sends counts the
\* calls of handleSend and op names the last handler of the chat.
NoChat ==
  [mounted |-> FALSE, isVoiceRecording |-> FALSE, refs |-> NullChatRefs,
   runs |-> [k \in VoiceRuns |-> NoVoiceRun], stops |-> <<>>,
   messages |-> <<>>, input |-> EmptyStr, isLoading |-> FALSE,
   chatRef |-> 0, requests |-> <<>>, sends |-> 0, op |-> "other"]

\* No audio buffer has been processed.
NoPcm == [data |-> <<>>, encoded |-> FALSE, int16 |-> <<>>, bytes |-> <<>>]

\* The whole state as one record, so that a handler is a function from state
\* to state and a handler followed by its commit is a composition.
World ==
  [appState |-> appState, currentDream |-> currentDream, allDreams |-> allDreams,
   error |-> error, storage |-> storage, now |-> now, cur |-> cur,
   isRecording |-> isRecording, interimTranscription |-> interimTranscription,
   sensitivity |-> sensitivity, refs |-> refs, runs |-> runs, stops |-> stops, analyses |-> analyses,
   msgs |-> msgs, ev |-> ev, regens |-> regens]

Becomes(w) ==
  /\ appState' = w.appState
  /\ currentDream' = w.currentDream
  /\ allDreams' = w.allDreams
  /\ error' = w.error
  /\ storage' = w.storage
  /\ now' = w.now
  /\ cur' = w.cur
  /\ isRecording' = w.isRecording
  /\ interimTranscription' = w.interimTranscription
  /\ sensitivity' = w.sensitivity
  /\ refs' = w.refs
  /\ runs' = w.runs
  /\ stops' = w.stops
  /\ analyses' = w.analyses
  /\ msgs' = w.msgs
  /\ ev' = w.ev
  /\ regens' = w.regens

----------------------------------------------------------------------------
(* Local storage service (App.tsx)                                         *)

\* The stored item: the list it parses to, or an unparseable blob; a missing
\* item reads as the empty list.  access: whether window.localStorage can be
\* used; where the browser denies it every use throws a SecurityError.
Blob(dreams) == [parses |-> TRUE, dreams |-> dreams, access |-> TRUE]
Corrupt == [parses |-> FALSE, dreams |-> <<>>, access |-> TRUE]
Denied == [parses |-> TRUE, dreams |-> <<>>, access |-> FALSE]

\* Mutant of getSavedDreams: an unparseable blob is read as [] and left in place.
getSavedDreamsKeepsBlob(w) ==
  IF ~w.storage.access
    THEN [list |-> <<>>, w |-> w, threw |-> TRUE]
  ELSE IF ~w.storage.parses
    THEN [list |-> <<>>, w |-> w, threw |-> FALSE]
    ELSE [list |-> w.storage.dreams, w |-> w, threw |-> FALSE]

\* getSavedDreams: the parsed list; an unparseable blob is removed and read as [].
\* Where storage is denied getItem throws, and so does the removeItem of the
\* catch block: the exception leaves getSavedDreams (threw).
getSavedDreams(w) ==
  IF ~w.storage.access
    THEN [list |-> <<>>, w |-> w, threw |-> TRUE]
  ELSE IF ~w.storage.parses
    THEN [list |-> <<>>, threw |-> FALSE,
          w |-> [w EXCEPT !.storage = Blob(<<>>), !.ev.wrote = "removed"]]
    ELSE [list |-> w.storage.dreams, w |-> w, threw |-> FALSE]

\* saveDreams: setItem, whose failure (writeOk = FALSE) is caught and logged.
saveDreams(w, dreams, writeOk) ==
  IF writeOk /\ w.storage.access
    THEN [w EXCEPT !.storage = Blob(dreams), !.ev.wrote = "ok"]
    ELSE [w EXCEPT !.ev.wrote = "failed"]

\* Mutant of saveNewDream: the new dream is put last.
saveNewDreamAppends(w, newDream, writeOk) ==
  LET got == getSavedDreams(w)
  IN IF got.threw THEN [w EXCEPT !.ev.wrote = "failed"]
     ELSE saveDreams(got.w, got.list \o <<newDream>>, writeOk)

\* saveNewDream: read, prepend, write; an exception of the read is caught.
saveNewDream(w, newDream, writeOk) ==
  LET got == getSavedDreams(w)
  IN IF got.threw THEN [w EXCEPT !.ev.wrote = "failed"]
     ELSE saveDreams(got.w, <<newDream>> \o got.list, writeOk)

----------------------------------------------------------------------------
(* DreamRecorder (components/DreamRecorder.tsx)                            *)

\* renderContent: DreamRecorder is rendered in the IDLE and RECORDING views.
Mounted(a) == a \in {IDLE, RECORDING}

UsedRuns(w) == {k \in Runs : w.runs[k].phase # "unused"}

\* The run a call of startRecording would be.
NewRun(w) == Cardinality(UsedRuns(w)) + 1

\* The latest run started on instance i (0 when none): the recording a stop ends.
LatestRun(w, i) ==
  LET mine == {k \in UsedRuns(w) : w.runs[k].inst = i}
  IN IF mine = {} THEN 0 ELSE CHOOSE k \in mine : \A j \in mine : j <= k

\* setIsRecording on instance i: a state setter of an unmounted component does nothing.
setIsRecording(w, i, b) ==
  IF i = w.cur /\ Mounted(w.appState) THEN [w EXCEPT !.isRecording = b] ELSE w

setInterimTranscription(w, i, t) ==
  IF i = w.cur /\ Mounted(w.appState) THEN [w EXCEPT !.interimTranscription = t] ELSE w

\* Mutant of handleRecordingComplete: the empty transcript is analyzed too.
handleRecordingCompleteAnalyzesEmpty(w, transcription, rec) ==
  [w EXCEPT !.appState = ANALYZING, !.error = NoError,
            !.analyses = @ \cup {[rec |-> rec, transcription |-> transcription,
                                  image |-> "pending", interpretation |-> "pending",
                                  first |-> "none"]}]

\* handleRecordingComplete up to its await (App.tsx); rec is the recording it ends.
handleRecordingComplete(w, transcription, rec) ==
  IF Trim(transcription) = EmptyStr
    THEN [w EXCEPT !.error = ErrEmpty, !.appState = IDLE]
    ELSE [w EXCEPT !.appState = ANALYZING, !.error = NoError,
                   !.analyses = @ \cup {[rec |-> rec, transcription |-> transcription,
                                         image |-> "pending", interpretation |-> "pending",
                                         first |-> "none"]}]

\* stopRecording, last line: onRecordingComplete(transcriptionRef.current.trim()).
stopRecordingComplete(w, i, rec, did) ==
  LET t == Trim(w.refs[i].transcription)
      w1 == [w EXCEPT !.ev = [NoEv EXCEPT !.op = "complete", !.k = rec, !.arg = t,
                                          !.log = did],
                      !.runs = [j \in Runs |->
                                  IF j = rec THEN [w.runs[j] EXCEPT !.over = TRUE]
                                  ELSE w.runs[j]]]
  IN handleRecordingComplete(w1, t, rec)

\* stopRecording from `if (sessionPromiseRef.current)`: await the promise the ref
\* holds now, or go on to the last line.  did: the release steps made so far.
stopRecordingSession(w, i, rec, did) ==
  LET p == w.refs[i].sessionPromise
  IN IF p # 0
       THEN [w EXCEPT !.stops = @ \cup {[inst |-> i, rec |-> rec, pc |-> "session",
                                          k |-> p, did |-> did]}]
       ELSE stopRecordingComplete(w, i, rec, did)

\* stopRecording after `await sessionPromiseRef.current`: close that session,
\* clear the ref, deliver the transcript.
stopRecordingAfterSession(w, s) ==
  LET w1 == [w EXCEPT !.stops = @ \ {s},
                      !.runs[s.k].sess = "closed",
                      !.runs[s.k].sessCloses = @ + 1,
                      !.refs[s.inst].sessionPromise = 0]
  IN stopRecordingComplete(w1, s.inst, s.rec, Append(s.did, "session"))

\* stopRecording after `await audioContextRef.current.close()`.
stopRecordingAfterContext(w, s) ==
  LET w1 == [w EXCEPT !.stops = @ \ {s},
                      !.runs[s.k].ctx = "closed",
                      !.refs[s.inst].audioContext = 0]
  IN stopRecordingSession(w1, s.inst, s.rec, Append(s.did, "context"))

\* Releasing what a ref holds: nothing when the ref is null.
StopTracks(rs, m) ==
  IF m = 0 THEN rs
  ELSE [rs EXCEPT ![m].stream = "stopped", ![m].trackStops = @ + 1]

Disconnect(rs, node, k) ==
  IF k = 0 THEN rs ELSE [rs EXCEPT ![k][node] = "disconnected"]

CancelFrame(rs, k) ==
  IF k = 0 THEN rs ELSE [rs EXCEPT ![k].raf = FALSE]

\* A release step that was made (its ref was not null) is added to the log.
Logged(log, step, k) == IF k = 0 THEN log ELSE Append(log, step)

\* Mutant of stopRecordingSync: the tracks are stopped before the frame is cancelled.
stopRecordingSyncTracksFirst(rs, r) ==
  LET rs1 == StopTracks(rs, r.mediaStream)
      l1 == Logged(<<>>, "tracks", r.mediaStream)
      rs2 == CancelFrame(rs1, r.animationFrameId)
      l2 == Logged(l1, "frame", r.animationFrameId)
      rs3 == Disconnect(rs2, "scriptProcessor", r.scriptProcessor)
      l3 == Logged(l2, "scriptProcessor", r.scriptProcessor)
      rs4 == Disconnect(rs3, "gainNode", r.gainNode)
      l4 == Logged(l3, "gainNode", r.gainNode)
      rs5 == Disconnect(rs4, "analyserNode", r.analyserNode)
      l5 == Logged(l4, "analyserNode", r.analyserNode)
  IN [runs |-> rs5, log |-> l5]

\* stopRecording, its synchronous release steps on the refs r, in program order:
\* cancelAnimationFrame, track.stop(), then disconnect() of the script processor,
\* the gain node and the analyser node.
stopRecordingSync(rs, r) ==
  LET rs1 == CancelFrame(rs, r.animationFrameId)
      l1 == Logged(<<>>, "frame", r.animationFrameId)
      rs2 == StopTracks(rs1, r.mediaStream)
      l2 == Logged(l1, "tracks", r.mediaStream)
      rs3 == Disconnect(rs2, "scriptProcessor", r.scriptProcessor)
      l3 == Logged(l2, "scriptProcessor", r.scriptProcessor)
      rs4 == Disconnect(rs3, "gainNode", r.gainNode)
      l4 == Logged(l3, "gainNode", r.gainNode)
      rs5 == Disconnect(rs4, "analyserNode", r.analyserNode)
      l5 == Logged(l4, "analyserNode", r.analyserNode)
  IN [runs |-> rs5, log |-> l5]

\* stopRecording from setIsRecording(false) to its first await, on instance i.
\* While an earlier close() of the same context is pending, audioContext.state
\* reads 'closed' or not (seenClosed) depending on the browser; a second close()
\* rejects with InvalidStateError, which ends stopRecording at that await.
stopRecordingTeardown(w, i, seenClosed) ==
  LET r == w.refs[i]
      rec == LatestRun(w, i)
      c == r.audioContext
      sync == stopRecordingSync(w.runs, r)
      w1 == [setIsRecording(w, i, FALSE) EXCEPT
               !.runs = sync.runs,
               !.refs[i] = [r EXCEPT !.animationFrameId = 0, !.mediaStream = 0,
                                     !.scriptProcessor = 0, !.gainNode = 0,
                                     !.analyserNode = 0]]
      notClosed == \/ w.runs[c].ctx = "running"
                   \/ w.runs[c].ctx = "closing" /\ ~seenClosed
  IN IF c # 0 /\ notClosed
       THEN IF w.runs[c].ctx = "running"
              THEN [w1 EXCEPT !.runs[c].ctx = "closing",
                              !.runs[c].ctxCloses = @ + 1,
                              !.stops = @ \cup {[inst |-> i, rec |-> rec,
                                                 pc |-> "context", k |-> c,
                                                 did |-> sync.log]}]
              ELSE [w1 EXCEPT !.runs[c].ctxCloses = @ + 1]
       ELSE stopRecordingSession(w1, i, rec, sync.log)

\* Mutant of stopRecording: the isRecording guard is missing.
stopRecordingUnguarded(w, i, captured, seenClosed) ==
  stopRecordingTeardown(w, i, seenClosed)

\* stopRecording, called through a closure that captured isRecording = captured:
\* if (!isRecording) return.
stopRecording(w, i, captured, seenClosed) ==
  IF ~captured THEN w ELSE stopRecordingTeardown(w, i, seenClosed)

\* startRecording up to `await getUserMedia`, called on the mounted instance
\* through the closure of the current render.
startRecording(w) ==
  LET k == NewRun(w)
  IN [w EXCEPT !.appState = RECORDING,
               !.isRecording = TRUE,
               !.interimTranscription = EmptyStr,
               !.refs[w.cur].transcription = EmptyStr,
               !.runs[k] = [NoRun EXCEPT !.inst = w.cur, !.phase = "gum",
                                         !.stopCaptured = w.isRecording,
                                         !.sensitivity = w.sensitivity]]

\* The auto-start effect: if (initialState === 'recording' && !isRecording).
AutoStartDue(w) == Mounted(w.appState) /\ w.appState = RECORDING /\ ~w.isRecording

\* The React commit after a handler segment that started in view `before`:
\* unmount or mount of DreamRecorder, then the effects of the commit.
Mount(before, w) ==
  IF Mounted(before) /\ ~Mounted(w.appState)
    THEN [w EXCEPT !.isRecording = FALSE, !.interimTranscription = EmptyStr,
                   !.sensitivity = DefaultSensitivity]
  ELSE IF ~Mounted(before) /\ Mounted(w.appState)
    THEN [w EXCEPT !.cur = @ + 1, !.isRecording = (w.appState = RECORDING),
                   !.interimTranscription = EmptyStr,
                   !.sensitivity = DefaultSensitivity]
  ELSE w

Commit(before, w) ==
  LET m == Mount(before, w)
  IN IF AutoStartDue(m) THEN [startRecording(m) EXCEPT !.ev.auto = TRUE] ELSE m

\* The bounds leave room for what the commit does.
Fits(before, w) ==
  LET m == Mount(before, w)
  IN /\ m.cur <= MaxInst
     /\ AutoStartDue(m) => NewRun(m) <= MaxStarts

\* One handler segment and its commit.
Step(w) == Fits(appState, w) /\ Becomes(Commit(appState, w)) /\ UNCHANGED <<chat, pcm>>

\* The history variable ev names the last segment when it is one of these, and
\* "other" otherwise.
Watched ==
  {"clickStop", "denied", "onerror", "complete", "analysisResolved", "analysisRejected",
   "toggleFavorite", "updateDream", "interim", "final"}

Did(w, op, k) ==
  [w EXCEPT !.ev = IF op \in Watched
                     THEN [NoEv EXCEPT !.op = op, !.k = k]
                     ELSE [NoEv EXCEPT !.op = "other"]]

----------------------------------------------------------------------------
(* Initial state: App mounted in IDLE, its mount effect has loaded history *)

\* A dream saved by an earlier visit.
OldDream ==
  [id |-> 0, date |-> 0, transcription |-> <<"a">>, imageUrl |-> 1,
   interpretation |-> "text", isFavorite |-> FALSE]

InitBlobs == {Blob(<<>>), Corrupt, Blob(<<OldDream>>)}

Init ==
  \E blob \in InitBlobs :
    LET got == getSavedDreams([storage |-> blob, ev |-> NoEv])
    IN /\ appState = IDLE
       /\ currentDream = NoDream
       /\ allDreams = got.list
       /\ error = NoError
       /\ storage = got.w.storage
       /\ now = 1
       /\ cur = 1
       /\ isRecording = FALSE
       /\ interimTranscription = EmptyStr
       /\ sensitivity = DefaultSensitivity
       /\ refs = [i \in Insts |-> NullRefs]
       /\ runs = [k \in Runs |-> NoRun]
       /\ stops = {}
       /\ analyses = {}
       /\ msgs = 0
       /\ ev = got.w.ev
       /\ regens = NoRegens
       /\ chat = NoChat
       /\ pcm = NoPcm

----------------------------------------------------------------------------
(* User input on the IDLE/RECORDING view                                   *)

\* The button: onClick = isRecording ? stopRecording : startRecording.
ClickStart ==
  /\ Mounted(appState) /\ ~isRecording
  /\ NewRun(World) <= MaxStarts
  /\ Step(startRecording(Did(World, "clickStart", NewRun(World))))

ClickStop ==
  /\ Mounted(appState) /\ isRecording
  /\ \E seenClosed \in BOOLEAN :
       Step(stopRecording(Did(World, "clickStop", LatestRun(World, cur)), cur,
                          isRecording, seenClosed))

\* handleSelectDream, from a DreamHistoryItem of the IDLE/RECORDING view.
handleSelectDream(w, dreamToView) ==
  [w EXCEPT !.currentDream = dreamToView, !.appState = VIEWING]

SelectDream ==
  /\ Mounted(appState)
  /\ \E n \in DOMAIN allDreams :
       Step(handleSelectDream(Did(World, "selectDream", 0), allDreams[n]))

\* Mutant of handleGoHome: the view is not reset.
handleGoHomeKeepsView(w) ==
  [w EXCEPT !.currentDream = NoDream, !.error = NoError]

\* handleGoHome, the onReset of the DreamAnalysis view.
handleGoHome(w) ==
  [w EXCEPT !.appState = IDLE, !.currentDream = NoDream, !.error = NoError]

GoHome ==
  /\ appState = VIEWING /\ currentDream # NoDream
  /\ Step(handleGoHome(Did(World, "goHome", 0)))

----------------------------------------------------------------------------
(* startRecording after its await, and the callbacks of the live session   *)

\* getUserMedia resolved: keep the stream, open the live session.
startRecordingGranted(w, k) ==
  LET i == w.runs[k].inst
  IN [w EXCEPT !.runs[k].phase = "done",
               !.runs[k].stream = "live",
               !.runs[k].sess = "connecting",
               !.refs[i].mediaStream = k,
               !.refs[i].sessionPromise = k]

\* getUserMedia rejected: the catch block.
startRecordingDenied(w, k) ==
  setIsRecording([w EXCEPT !.runs[k].phase = "denied"], w.runs[k].inst, FALSE)

GetUserMediaResolves(k) ==
  /\ runs[k].phase = "gum"
  /\ Step(startRecordingGranted(Did(World, "granted", k), k))

GetUserMediaRejects(k) ==
  /\ runs[k].phase = "gum"
  /\ Step(startRecordingDenied(Did(World, "denied", k), k))

\* onopen: build the audio graph on the captured stream, with the sensitivity
\* that startRecording captured as gain, and start visualize().
onopen(w, k) ==
  LET i == w.runs[k].inst
  IN [w EXCEPT !.runs[k].sess = "open",
               !.runs[k].ctx = "running",
               !.runs[k].gainNode = "connected",
               !.runs[k].gain = w.runs[k].sensitivity,
               !.runs[k].analyserNode = "connected",
               !.runs[k].scriptProcessor = "connected",
               !.runs[k].raf = TRUE,
               !.refs[i].audioContext = k,
               !.refs[i].gainNode = k,
               !.refs[i].analyserNode = k,
               !.refs[i].scriptProcessor = k,
               !.refs[i].animationFrameId = k]

OnOpen(k) ==
  /\ runs[k].sess = "connecting"
  /\ Step(onopen(Did(World, "onopen", k), k))

\* ai.live.connect rejects: the stored promise is rejected, no callback runs.
ConnectRejects(k) ==
  /\ runs[k].sess = "connecting"
  /\ Step([Did(World, "connectRejected", k) EXCEPT !.runs[k].sess = "rejected"])

\* The recordings of instance i that are not over: they hear a final text.
Hearing(w, i) ==
  {j \in UsedRuns(w) : w.runs[j].inst = i /\ ~w.runs[j].over} \cap
  ({LatestRun(w, i)} \cup {s.rec : s \in w.stops})

\* Mutant of onmessage: an interim text is added to the interim fragment.
onmessageKeepsInterim(w, k, text, isFinal) ==
  LET i == w.runs[k].inst
  IN IF isFinal
       THEN [setInterimTranscription(w, i, EmptyStr) EXCEPT
               !.refs[i].transcription = @ \o text \o <<" ">>,
               !.runs = [j \in Runs |->
                           IF j \in Hearing(w, i)
                             THEN [w.runs[j] EXCEPT !.said = @ \o text \o <<" ">>,
                                                    !.heard = Append(@, text)]
                             ELSE w.runs[j]]]
       ELSE setInterimTranscription(w, i, w.interimTranscription \o text)

\* Mutant of onmessage: an interim text is committed as well.
onmessageCommitsInterim(w, k, text, isFinal) ==
  LET i == w.runs[k].inst
      w1 == [w EXCEPT !.refs[i].transcription = @ \o text \o <<" ">>]
  IN IF isFinal
       THEN [setInterimTranscription(w1, i, EmptyStr) EXCEPT
               !.runs = [j \in Runs |->
                           IF j \in Hearing(w, i)
                             THEN [w.runs[j] EXCEPT !.said = @ \o text \o <<" ">>,
                                                    !.heard = Append(@, text)]
                             ELSE w.runs[j]]]
       ELSE setInterimTranscription(w1, i, text)

\* onmessage with an inputTranscription {text, isFinal}.
onmessage(w, k, text, isFinal) ==
  LET i == w.runs[k].inst
  IN IF isFinal
       THEN [setInterimTranscription(w, i, EmptyStr) EXCEPT
               !.refs[i].transcription = @ \o text \o <<" ">>,
               !.runs = [j \in Runs |->
                           IF j \in Hearing(w, i)
                             THEN [w.runs[j] EXCEPT !.said = @ \o text \o <<" ">>,
                                                    !.heard = Append(@, text)]
                             ELSE w.runs[j]]]
       ELSE setInterimTranscription(w, i, text)

OnMessage(k) ==
  /\ runs[k].sess = "open"
  /\ msgs < MaxMsgs
  /\ \E text \in Texts, isFinal \in BOOLEAN :
       LET did == IF isFinal THEN Did(World, "final", k)
                  ELSE [Did(World, "interim", k) EXCEPT !.ev.arg = text]
       IN Step(onmessage([did EXCEPT !.msgs = @ + 1], k, text, isFinal))

\* onerror: console.error, then the stopRecording that startRecording captured.
onerror(w, k, seenClosed) ==
  stopRecording(w, w.runs[k].inst, w.runs[k].stopCaptured, seenClosed)

OnError(k) ==
  /\ runs[k].sess \in {"connecting", "open"}
  /\ \E seenClosed \in BOOLEAN :
       Step(onerror([Did(World, "onerror", k) EXCEPT
                       !.runs[k].sess = IF @ = "connecting" THEN "failed" ELSE "broken"],
                    k, seenClosed))

\* visualize, as the animation frame callback of run k.
visualize(w, k) ==
  LET i == w.runs[k].inst
  IN IF w.refs[i].analyserNode = 0
       THEN [w EXCEPT !.runs[k].raf = FALSE]
       ELSE [w EXCEPT !.refs[i].animationFrameId = k]

Frame(k) ==
  /\ runs[k].raf
  /\ Step(visualize(Did(World, "frame", k), k))

----------------------------------------------------------------------------
(* stopRecording after its awaits                                          *)

\* audioContext.close() resolved.
StopAfterContext(s) ==
  /\ s \in stops /\ s.pc = "context"
  /\ Step(stopRecordingAfterContext(Did(World, "stopAfterContext", s.rec), s))

\* The awaited session promise is resolved once the session has opened.
StopAfterSession(s) ==
  /\ s \in stops /\ s.pc = "session"
  /\ runs[s.k].sess \in {"open", "broken", "closed"}
  /\ Step(stopRecordingAfterSession(Did(World, "stopAfterSession", s.rec), s))

\* The awaited session promise is rejected: stopRecording ends by throwing.
StopSessionRejected(s) ==
  /\ s \in stops /\ s.pc = "session"
  /\ runs[s.k].sess = "rejected"
  /\ Step([Did(World, "stopThrows", s.rec) EXCEPT !.stops = @ \ {s}])

----------------------------------------------------------------------------
(* generateDreamAnalysis (services/geminiService.ts) and the rest of       *)
(* handleRecordingComplete                                                 *)

\* One of the two requests of an analysis settles; first (history) names the one
\* that settled first.
Settled(a, request, outcome) ==
  [a EXCEPT ![request] = outcome, !.first = IF @ = "none" THEN request ELSE @]

\* generateDreamImage resolves with a data URL, or throws.
ImageSettles(a) ==
  /\ a \in analyses /\ a.image = "pending"
  /\ \E outcome \in {"ok", "fail"} :
       Step([Did(World, "imageSettles", a.rec) EXCEPT
               !.analyses = (@ \ {a}) \cup {Settled(a, "image", outcome)}])

\* interpretDream resolves with the text, or throws.
InterpretationSettles(a) ==
  /\ a \in analyses /\ a.interpretation = "pending"
  /\ \E outcome \in {"ok", "fail"} :
       Step([Did(World, "interpretationSettles", a.rec) EXCEPT
               !.analyses = (@ \ {a}) \cup {Settled(a, "interpretation", outcome)}])

\* Mutant of generateDreamAnalysis: the join is fulfilled by the first request
\* that succeeds.
generateDreamAnalysisAny(a) ==
  IF a.image = "ok" \/ a.interpretation = "ok" THEN "fulfilled"
  ELSE IF a.image = "fail" /\ a.interpretation = "fail" THEN "rejected"
  ELSE "pending"

\* Mutant of generateDreamAnalysis: the join waits for the image only.
generateDreamAnalysisImageOnly(a) ==
  IF a.image = "fail" THEN "rejected"
  ELSE IF a.image = "ok" THEN "fulfilled"
  ELSE "pending"

\* Promise.all: fulfilled when both are, rejected as soon as one is.
generateDreamAnalysis(a) ==
  IF a.image = "fail" \/ a.interpretation = "fail" THEN "rejected"
  ELSE IF a.image = "ok" /\ a.interpretation = "ok" THEN "fulfilled"
  ELSE "pending"

\* handleRecordingComplete after the await, try branch.
handleRecordingCompleteResolved(w, a, writeOk) ==
  LET newDream == [id |-> w.now, date |-> w.now, transcription |-> a.transcription,
                   imageUrl |-> 1, interpretation |-> "text", isFavorite |-> FALSE]
      w1 == saveNewDream(w, newDream, writeOk)
  IN [w1 EXCEPT !.allDreams = <<newDream>> \o @,
                !.currentDream = newDream,
                !.appState = VIEWING,
                !.now = @ + 1,
                !.analyses = @ \ {a}]

\* Mutant of handleRecordingCompleteRejected: the catch branch issues the two
\* requests again.
handleRecordingCompleteRetries(w, a) ==
  [w EXCEPT !.error = ErrAnalysis, !.appState = IDLE,
            !.analyses = (@ \ {a}) \cup {[a EXCEPT !.image = "pending",
                                                  !.interpretation = "pending",
                                                  !.first = "none"]}]

\* handleRecordingComplete after the await, catch branch.
handleRecordingCompleteRejected(w, a) ==
  [w EXCEPT !.error = ErrAnalysis, !.appState = IDLE, !.analyses = @ \ {a}]

AnalysisResolved(a) ==
  /\ a \in analyses /\ generateDreamAnalysis(a) = "fulfilled"
  /\ \E writeOk \in BOOLEAN :
       Step(handleRecordingCompleteResolved(
              [Did(World, "analysisResolved", a.rec) EXCEPT !.ev.arg = <<a.first>>],
              a, writeOk))

AnalysisRejected(a) ==
  /\ a \in analyses /\ generateDreamAnalysis(a) = "rejected"
  /\ Step(handleRecordingCompleteRejected(Did(World, "analysisRejected", a.rec), a))

----------------------------------------------------------------------------
Next ==
  \/ ClickStart
  \/ ClickStop
  \/ SelectDream
  \/ GoHome
  \/ \E k \in Runs : GetUserMediaResolves(k)
  \/ \E k \in Runs : GetUserMediaRejects(k)
  \/ \E k \in Runs : OnOpen(k)
  \/ \E k \in Runs : ConnectRejects(k)
  \/ \E k \in Runs : OnMessage(k)
  \/ \E k \in Runs : OnError(k)
  \/ \E k \in Runs : Frame(k)
  \/ \E s \in stops : StopAfterContext(s)
  \/ \E s \in stops : StopAfterSession(s)
  \/ \E s \in stops : StopSessionRejected(s)
  \/ \E a \in analyses : ImageSettles(a)
  \/ \E a \in analyses : InterpretationSettles(a)
  \/ \E a \in analyses : AnalysisResolved(a)
  \/ \E a \in analyses : AnalysisRejected(a)

Spec == Init /\ [][Next]_vars

----------------------------------------------------------------------------
(* The sensitivity slider of DreamRecorder                                  *)

\* The effect with dependency [sensitivity]: the gain node the ref holds, if
\* any, gets the new value.
sensitivityEffect(w) ==
  LET g == w.refs[w.cur].gainNode
  IN IF g # 0 THEN [w EXCEPT !.runs[g].gain = w.sensitivity] ELSE w

\* onChange of the slider, which is rendered while isRecording.
SetSensitivity ==
  /\ Mounted(appState) /\ isRecording
  /\ \E v \in Sensitivities \ {sensitivity} :
       Step(sensitivityEffect([Did(World, "setSensitivity", 0) EXCEPT !.sensitivity = v]))

\* The recorder without the transcript and what follows from it: no message is
\* delivered, so every recording completes empty.
GainNext ==
  \/ SetSensitivity
  \/ ClickStart
  \/ ClickStop
  \/ SelectDream
  \/ GoHome
  \/ \E k \in Runs : GetUserMediaResolves(k)
  \/ \E k \in Runs : GetUserMediaRejects(k)
  \/ \E k \in Runs : OnOpen(k)
  \/ \E k \in Runs : ConnectRejects(k)
  \/ \E k \in Runs : OnError(k)
  \/ \E s \in stops : StopAfterContext(s)
  \/ \E s \in stops : StopAfterSession(s)
  \/ \E s \in stops : StopSessionRejected(s)

GainSpec == Init /\ [][GainNext]_vars

----------------------------------------------------------------------------
(* ChatInterface voice input (components/ChatInterface.tsx)                *)

RemoveAt(q, n) == SubSeq(q, 1, n - 1) \o SubSeq(q, n + 1, Len(q))

setIsVoiceRecording(c, b) ==
  IF c.mounted THEN [c EXCEPT !.isVoiceRecording = b] ELSE c

\* stopVoiceRecording from `if (sessionPromiseRef.current)`.
stopVoiceRecordingSession(c) ==
  LET p == c.refs.sessionPromise
  IN IF p # 0 THEN [c EXCEPT !.stops = Append(@, [pc |-> "session", k |-> p, by |-> NoSend])] ELSE c

\* stopVoiceRecording after `await sessionPromiseRef.current`.
stopVoiceRecordingAfterSession(c, n) ==
  LET k == c.stops[n].k
  IN [c EXCEPT !.stops = RemoveAt(@, n),
               !.runs[k].sess = "closed",
               !.runs[k].sessCloses = @ + 1,
               !.refs.sessionPromise = 0]

\* stopVoiceRecording after `await audioContextRef.current.close()`.
stopVoiceRecordingAfterContext(c, n) ==
  LET k == c.stops[n].k
  IN stopVoiceRecordingSession(
       [c EXCEPT !.stops = RemoveAt(@, n),
                 !.runs[k].ctx = "closed",
                 !.refs.audioContext = 0])

\* stopVoiceRecording up to its first await, through a closure that captured
\* isVoiceRecording = captured.
stopVoiceRecording(c, captured, seenClosed) ==
  IF ~captured THEN c
  ELSE
    LET r == c.refs
        x == r.audioContext
        rs == Disconnect(StopTracks(c.runs, r.mediaStream),
                         "scriptProcessor", r.scriptProcessor)
        c1 == [setIsVoiceRecording(c, FALSE) EXCEPT
                 !.runs = rs,
                 !.refs = [r EXCEPT !.mediaStream = 0, !.scriptProcessor = 0]]
        notClosed == \/ c.runs[x].ctx = "running"
                     \/ c.runs[x].ctx = "closing" /\ ~seenClosed
    IN IF x # 0 /\ notClosed
         THEN IF c.runs[x].ctx = "running"
                THEN [c1 EXCEPT !.runs[x].ctx = "closing",
                                !.runs[x].ctxCloses = @ + 1,
                                !.stops = Append(@, [pc |-> "context", k |-> x, by |-> NoSend])]
                ELSE [c1 EXCEPT !.runs[x].ctxCloses = @ + 1]
         ELSE stopVoiceRecordingSession(c1)

UsedVoiceRuns(c) == {k \in VoiceRuns : c.runs[k].phase # "unused"}

\* startVoiceRecording up to `await getUserMedia`.
startVoiceRecording(c) ==
  LET k == Cardinality(UsedVoiceRuns(c)) + 1
  IN [c EXCEPT !.isVoiceRecording = TRUE,
               !.runs[k] = [NoVoiceRun EXCEPT !.phase = "gum",
                                              !.stopCaptured = c.isVoiceRecording]]

\* The commit after a segment that started with isVoiceRecording = before: the
\* effect with dependency [stopVoiceRecording] is re-run when isVoiceRecording
\* changed, and its cleanup calls the stopVoiceRecording of the previous render.
ChatCommit(before, c, seenClosed) ==
  IF c.mounted /\ c.isVoiceRecording # before
    THEN stopVoiceRecording(c, before, seenClosed)
    ELSE c

\* A segment of the handler named op, and its commit.
ChatDid(op, c) ==
  /\ \E seenClosed \in BOOLEAN :
       chat' = [ChatCommit(chat.isVoiceRecording, c, seenClosed) EXCEPT !.op = op]
  /\ UNCHANGED <<appVars, pcm>>

ChatStep(c) == ChatDid("other", c)

\* The effect with dependencies [dreamTranscription, dreamInterpretation], run
\* when the ChatInterface is mounted: a new chat session, and the messages reset.
chatSessionEffect(c) ==
  [c EXCEPT !.chatRef = @ + 1, !.messages = <<>>]

\* handleSend from `if (!input.trim() || isLoading || !chatRef.current)` up to
\* `await sendMessage(input)`, with the input and isLoading of its closure `by`.
handleSendRequest(c, by) ==
  IF Trim(by.input) = EmptyStr \/ by.isLoading \/ c.chatRef = 0 THEN c
  ELSE
    LET c1 == IF c.mounted
                THEN [c EXCEPT !.messages = Append(@, [role |-> "user", text |-> by.input]),
                               !.input = EmptyStr,
                               !.isLoading = TRUE]
                ELSE c
    IN [c1 EXCEPT !.requests = Append(@, [text |-> by.input, session |-> c.chatRef])]

\* `await stopVoiceRecording()` in handleSend: c is the state the awaited call
\* has reached and n the number of other calls suspended; the handleSend of the
\* closure `by` goes on when the call has run to its end, and waits with it while
\* it is suspended (the call is then the last of c.stops).
AwaitStop(by, n, c) ==
  IF ~by.awaiting THEN c
  ELSE IF Len(c.stops) > n THEN [c EXCEPT !.stops[Len(c.stops)].by = by]
  ELSE handleSendRequest(c, by)

\* Whether the stopVoiceRecording called in c throws at `await close()`: close()
\* of a context that is being closed rejects.
stopVoiceRecordingThrows(c, seenClosed) ==
  LET x == c.refs.audioContext
  IN x # 0 /\ c.runs[x].ctx = "closing" /\ ~seenClosed

\* handleSend up to its first await.
handleSend(c, seenClosed) ==
  LET by == [awaiting |-> TRUE, input |-> c.input, isLoading |-> c.isLoading]
  IN IF c.isVoiceRecording
       THEN IF stopVoiceRecordingThrows(c, seenClosed)
              THEN stopVoiceRecording(c, c.isVoiceRecording, seenClosed)
              ELSE AwaitStop(by, Len(c.stops),
                             stopVoiceRecording(c, c.isVoiceRecording, seenClosed))
       ELSE handleSendRequest(c, by)

\* handleSend after `await sendMessage(input)`: the try, or the catch, and the
\* finally; the setters of an unmounted component do nothing.
handleSendSettled(c, n, text) ==
  LET c1 == [c EXCEPT !.requests = RemoveAt(@, n)]
  IN IF c.mounted
       THEN [c1 EXCEPT !.messages = Append(@, [role |-> "model", text |-> text]),
                       !.isLoading = FALSE]
       ELSE c1

\* The name of the step that ends the stopVoiceRecording awaited by a handleSend.
Resumed(by) == IF by.awaiting THEN "sendResumed" ELSE "other"

\* handleMicClick
MicClick ==
  /\ chat.mounted
  /\ IF chat.isVoiceRecording
       THEN \E seenClosed \in BOOLEAN :
              ChatStep(stopVoiceRecording(chat, chat.isVoiceRecording, seenClosed))
       ELSE /\ Cardinality(UsedVoiceRuns(chat)) < MaxVoice
            /\ ChatStep(startVoiceRecording(chat))

VoiceGetUserMediaResolves(k) ==
  /\ chat.runs[k].phase = "gum"
  /\ ChatStep([chat EXCEPT !.runs[k].phase = "done",
                           !.runs[k].stream = "live",
                           !.runs[k].sess = "connecting",
                           !.refs.mediaStream = k,
                           !.refs.sessionPromise = k])

VoiceGetUserMediaRejects(k) ==
  /\ chat.runs[k].phase = "gum"
  /\ ChatStep(setIsVoiceRecording([chat EXCEPT !.runs[k].phase = "denied"], FALSE))

VoiceOnOpen(k) ==
  /\ chat.runs[k].sess = "connecting"
  /\ ChatStep([chat EXCEPT !.runs[k].sess = "open",
                           !.runs[k].ctx = "running",
                           !.runs[k].scriptProcessor = "connected",
                           !.refs.audioContext = k,
                           !.refs.scriptProcessor = k])

VoiceConnectRejects(k) ==
  /\ chat.runs[k].sess = "connecting"
  /\ ChatStep([chat EXCEPT !.runs[k].sess = "rejected"])

VoiceOnError(k) ==
  /\ chat.runs[k].sess \in {"connecting", "open"}
  /\ \E seenClosed \in BOOLEAN :
       ChatStep(stopVoiceRecording(
                  [chat EXCEPT !.runs[k].sess = IF @ = "connecting" THEN "failed" ELSE "broken"],
                  chat.runs[k].stopCaptured, seenClosed))

VoiceStopAfterContext(n) ==
  /\ chat.stops[n].pc = "context"
  /\ ChatDid(Resumed(chat.stops[n].by),
             AwaitStop(chat.stops[n].by, Len(chat.stops) - 1,
                       stopVoiceRecordingAfterContext(chat, n)))

VoiceStopAfterSession(n) ==
  /\ chat.stops[n].pc = "session"
  /\ chat.runs[chat.stops[n].k].sess \in {"open", "broken", "closed"}
  /\ ChatDid(Resumed(chat.stops[n].by),
             AwaitStop(chat.stops[n].by, Len(chat.stops) - 1,
                       stopVoiceRecordingAfterSession(chat, n)))

VoiceStopSessionRejected(n) ==
  /\ chat.stops[n].pc = "session"
  /\ chat.runs[chat.stops[n].k].sess = "rejected"
  /\ ChatStep([chat EXCEPT !.stops = RemoveAt(@, n)])

\* ChatInterface is unmounted with its DreamAnalysis view: the cleanup of the
\* last effect calls the stopVoiceRecording of the last render.
ChatUnmount ==
  /\ chat.mounted
  /\ \E seenClosed \in BOOLEAN :
       ChatStep(stopVoiceRecording([chat EXCEPT !.mounted = FALSE],
                                   chat.isVoiceRecording, seenClosed))

\* The VIEWING view of a saved dream, with its ChatInterface mounted.
ChatInit ==
  /\ appState = VIEWING
  /\ currentDream = OldDream
  /\ allDreams = <<OldDream>>
  /\ error = NoError
  /\ storage = Blob(<<OldDream>>)
  /\ now = 1
  /\ cur = 1
  /\ isRecording = FALSE
  /\ interimTranscription = EmptyStr
  /\ sensitivity = DefaultSensitivity
  /\ refs = [i \in Insts |-> NullRefs]
  /\ runs = [k \in Runs |-> NoRun]
  /\ stops = {}
  /\ analyses = {}
  /\ msgs = 0
  /\ ev = NoEv
  /\ regens = NoRegens
  /\ chat = chatSessionEffect([NoChat EXCEPT !.mounted = TRUE])
  /\ pcm = NoPcm

ChatNext ==
  \/ MicClick
  \/ ChatUnmount
  \/ \E k \in VoiceRuns : VoiceGetUserMediaResolves(k)
  \/ \E k \in VoiceRuns : VoiceGetUserMediaRejects(k)
  \/ \E k \in VoiceRuns : VoiceOnOpen(k)
  \/ \E k \in VoiceRuns : VoiceConnectRejects(k)
  \/ \E k \in VoiceRuns : VoiceOnError(k)
  \/ \E n \in DOMAIN chat.stops : VoiceStopAfterContext(n)
  \/ \E n \in DOMAIN chat.stops : VoiceStopAfterSession(n)
  \/ \E n \in DOMAIN chat.stops : VoiceStopSessionRejected(n)

ChatSpec == ChatInit /\ [][ChatNext]_vars

----------------------------------------------------------------------------
(* ChatInterface messages (components/ChatInterface.tsx)                   *)

\* The textarea's onChange; the textarea is disabled while isLoading.
TypeInput ==
  /\ chat.mounted /\ ~chat.isLoading
  /\ \E v \in (Texts \cup {EmptyStr}) \ {chat.input} :
       ChatStep([chat EXCEPT !.input = v])

\* Enter in the textarea (handleKeyDown), or a click on the send button: both
\* call the handleSend of the last render, and neither is there while isLoading.
Send ==
  /\ chat.mounted /\ ~chat.isLoading
  /\ chat.sends < MaxSends
  /\ \E seenClosed \in BOOLEAN :
       ChatDid("send", handleSend([chat EXCEPT !.sends = @ + 1], seenClosed))

SendMessageResolves(n) ==
  \E text \in Replies : ChatDid("resolved", handleSendSettled(chat, n, text))

SendMessageRejects(n) ==
  ChatDid("rejected", handleSendSettled(chat, n, Apology))

\* handleMicClick, where messages are sent.
SendMicClick ==
  /\ chat.isVoiceRecording \/ Cardinality(UsedVoiceRuns(chat)) < MaxSendVoice
  /\ MicClick

SendNext ==
  \/ SendMicClick
  \/ ChatUnmount
  \/ \E k \in VoiceRuns : VoiceGetUserMediaResolves(k)
  \/ \E k \in VoiceRuns : VoiceGetUserMediaRejects(k)
  \/ \E k \in VoiceRuns : VoiceOnOpen(k)
  \/ \E k \in VoiceRuns : VoiceConnectRejects(k)
  \/ \E k \in VoiceRuns : VoiceOnError(k)
  \/ \E n \in DOMAIN chat.stops : VoiceStopAfterContext(n)
  \/ \E n \in DOMAIN chat.stops : VoiceStopAfterSession(n)
  \/ \E n \in DOMAIN chat.stops : VoiceStopSessionRejected(n)
  \/ TypeInput
  \/ Send
  \/ \E n \in DOMAIN chat.requests : SendMessageResolves(n)
  \/ \E n \in DOMAIN chat.requests : SendMessageRejects(n)

SendSpec == ChatInit /\ [][SendNext]_vars

----------------------------------------------------------------------------
(* createBlob (components/DreamRecorder.tsx, components/ChatInterface.tsx)  *)

\* A sample is a multiple of 1/SampleDen, given by its numerator; a buffer holds
\* up to MaxBuffer samples between -MaxSample/SampleDen and MaxSample/SampleDen.
SampleDen == 4
MaxSample == 10
MaxBuffer == 2

Samples == (0 - MaxSample)..MaxSample
Buffers == UNION {[1..n -> Samples] : n \in 1..MaxBuffer}

\* The quotient p / q (q > 0) with its fraction dropped.
Truncate(p, q) == IF p >= 0 THEN p \div q ELSE 0 - ((0 - p) \div q)

\* The store into an Int16Array element: the number is truncated and taken
\* modulo 2^16 into -2^15 .. 2^15 - 1.
ToInt16(p, q) ==
  LET m == Truncate(p, q) % 65536
  IN IF m >= 32768 THEN m - 65536 ELSE m

\* new Uint8Array(int16.buffer): the two bytes of each element, low byte first.
RECURSIVE Uint8Array(_)
Uint8Array(int16) ==
  IF int16 = <<>> THEN <<>>
  ELSE <<(Head(int16) % 65536) % 256, (Head(int16) % 65536) \div 256>>
         \o Uint8Array(Tail(int16))

\* Mutant of createBlob: every sample is scaled by 32767.
createBlobSymmetric(data) ==
  LET int16 == [i \in DOMAIN data |-> ToInt16(data[i] * 32767, SampleDen)]
  IN [data |-> data, encoded |-> TRUE, int16 |-> int16, bytes |-> Uint8Array(int16)]

\* createBlob: int16[i] = data[i] < 0 ? data[i] * 32768 : data[i] * 32767; the
\* Blob's data is the base64 text of bytes.
createBlob(data) ==
  LET int16 == [i \in DOMAIN data |->
                  IF data[i] < 0 THEN ToInt16(data[i] * 32768, SampleDen)
                                 ELSE ToInt16(data[i] * 32767, SampleDen)]
  IN [data |-> data, encoded |-> TRUE, int16 |-> int16, bytes |-> Uint8Array(int16)]

\* onaudioprocess has been given a buffer.
BlobInit ==
  /\ \E data \in Buffers : pcm = [NoPcm EXCEPT !.data = data]
  /\ appState = RECORDING
  /\ currentDream = NoDream
  /\ allDreams = <<>>
  /\ error = NoError
  /\ storage = Blob(<<>>)
  /\ now = 1
  /\ cur = 1
  /\ isRecording = TRUE
  /\ interimTranscription = EmptyStr
  /\ sensitivity = DefaultSensitivity
  /\ refs = [i \in Insts |-> NullRefs]
  /\ runs = [k \in Runs |-> NoRun]
  /\ stops = {}
  /\ analyses = {}
  /\ msgs = 0
  /\ ev = NoEv
  /\ regens = NoRegens
  /\ chat = NoChat

\* onaudioprocess: const pcmBlob = createBlob(inputData).
AudioProcess ==
  /\ ~pcm.encoded
  /\ pcm' = createBlob(pcm.data)
  /\ UNCHANGED <<appVars, chat>>

BlobSpec == BlobInit /\ [][AudioProcess]_vars

----------------------------------------------------------------------------
(* The dream journal: App's history list, its stored copy and the           *)
(* DreamAnalysis view (App.tsx, components/DreamAnalysis.tsx).  The         *)
(* recorder is seen through its two callbacks, onRecordingStart and         *)
(* onRecordingComplete.                                                     *)

MaxDreams == 2      \* dreams created in one visit
MaxRegens == 1      \* runs of handleRegenerate in one visit

\* The transcripts a recording may deliver (trimmed by stopRecording).
Transcripts == {EmptyStr, <<"a">>}

\* handleUpdateDream, through the closure of a render whose allDreams was list.
handleUpdateDream(w, updatedDream, list, writeOk) ==
  LET updatedDreams == [n \in DOMAIN list |->
                          IF list[n].id = updatedDream.id THEN updatedDream ELSE list[n]]
  IN saveDreams([w EXCEPT !.currentDream = updatedDream, !.allDreams = updatedDreams],
                updatedDreams, writeOk)

\* handleToggleFavorite of App, from a DreamHistoryItem of the current render.
handleToggleFavorite(w, dreamId, writeOk) ==
  LET updatedDreams == [n \in DOMAIN w.allDreams |->
                          IF w.allDreams[n].id = dreamId
                            THEN [w.allDreams[n] EXCEPT !.isFavorite = ~@]
                            ELSE w.allDreams[n]]
  IN saveDreams([w EXCEPT !.allDreams = updatedDreams], updatedDreams, writeOk)

\* Mutant of compare: among equally favorited entries the older one comes first.
compareOldestFirst(a, b) ==
  IF a.isFavorite /\ ~b.isFavorite THEN -1
  ELSE IF ~a.isFavorite /\ b.isFavorite THEN 1
  ELSE a.date - b.date

\* The comparator of sortedDreams: favorites first, then by date descending.
compare(a, b) ==
  IF a.isFavorite /\ ~b.isFavorite THEN -1
  ELSE IF ~a.isFavorite /\ b.isFavorite THEN 1
  ELSE b.date - a.date

\* Array.prototype.sort (stable): x goes after the entries it does not precede.
RECURSIVE InsertSorted(_, _)
InsertSorted(x, sorted) ==
  IF sorted = <<>> THEN <<x>>
  ELSE IF compare(x, Head(sorted)) < 0 THEN <<x>> \o sorted
  ELSE <<Head(sorted)>> \o InsertSorted(x, Tail(sorted))

RECURSIVE SortDreams(_)
SortDreams(list) ==
  IF list = <<>> THEN <<>>
  ELSE InsertSorted(list[Len(list)], SortDreams(SubSeq(list, 1, Len(list) - 1)))

\* sortedDreams: the sort is made on a copy ([...allDreams]); view is the history
\* list that is rendered and w the state, which the sort leaves as it was.
sortedDreams(w) == [view |-> SortDreams(w.allDreams), w |-> w]

\* A handler segment of the journal and the render that follows it.
JournalStep(w) == Becomes(sortedDreams(w).w) /\ UNCHANGED <<chat, pcm>>

\* An exception left the mount effect: React has unmounted the App.
Alive == ev.op # "uncaught"

JournalBlobs == InitBlobs \cup {Denied}

\* App mounted in IDLE; its mount effect has run setAllDreams(getSavedDreams()).
JournalInit ==
  \E blob \in JournalBlobs :
    LET got == getSavedDreams([storage |-> blob, ev |-> NoEv])
    IN /\ appState = IDLE
       /\ currentDream = NoDream
       /\ allDreams = got.list
       /\ error = NoError
       /\ storage = got.w.storage
       /\ now = 1
       /\ cur = 1
       /\ isRecording = FALSE
       /\ interimTranscription = EmptyStr
       /\ sensitivity = DefaultSensitivity
       /\ refs = [i \in Insts |-> NullRefs]
       /\ runs = [k \in Runs |-> NoRun]
       /\ stops = {}
       /\ analyses = {}
       /\ msgs = 0
       /\ ev = IF got.threw THEN [NoEv EXCEPT !.op = "uncaught"] ELSE got.w.ev
       /\ regens = NoRegens
       /\ chat = NoChat
       /\ pcm = NoPcm

\* onRecordingStart, called by startRecording.
RecordingStarts ==
  /\ Alive /\ appState = IDLE
  /\ now <= MaxDreams
  /\ JournalStep([Did(World, "recordingStart", 0) EXCEPT !.appState = RECORDING])

\* onRecordingComplete, called by stopRecording with its transcript.
RecordingCompletes ==
  /\ Alive /\ appState = RECORDING
  /\ \E t \in Transcripts :
       JournalStep(handleRecordingComplete(Did(World, "complete", 0), t, 0))

JournalImageSettles(a) ==
  /\ a \in analyses /\ a.image = "pending"
  /\ \E outcome \in {"ok", "fail"} :
       JournalStep([Did(World, "imageSettles", 0) EXCEPT
                      !.analyses = (@ \ {a}) \cup {Settled(a, "image", outcome)}])

JournalInterpretationSettles(a) ==
  /\ a \in analyses /\ a.interpretation = "pending"
  /\ \E outcome \in {"ok", "fail"} :
       JournalStep([Did(World, "interpretationSettles", 0) EXCEPT
                      !.analyses = (@ \ {a}) \cup {Settled(a, "interpretation", outcome)}])

JournalAnalysisResolved(a) ==
  /\ a \in analyses /\ generateDreamAnalysis(a) = "fulfilled"
  /\ \E writeOk \in BOOLEAN :
       JournalStep(handleRecordingCompleteResolved(
                     [Did(World, "analysisResolved", 0) EXCEPT !.ev.arg = <<a.first>>],
                     a, writeOk))

JournalAnalysisRejected(a) ==
  /\ a \in analyses /\ generateDreamAnalysis(a) = "rejected"
  /\ JournalStep(handleRecordingCompleteRejected(Did(World, "analysisRejected", 0), a))

\* A DreamHistoryItem of the IDLE/RECORDING view is selected.
JournalSelectDream ==
  /\ Alive /\ Mounted(appState)
  /\ \E n \in DOMAIN allDreams :
       JournalStep(handleSelectDream(Did(World, "selectDream", 0), allDreams[n]))

\* The DreamAnalysis view is left: its pending handleRegenerate runs go on
\* with the closures they hold.
JournalGoHome ==
  /\ appState = VIEWING /\ currentDream # NoDream
  /\ JournalStep([handleGoHome(Did(World, "goHome", 0)) EXCEPT
                    !.regens.pending = {[g EXCEPT !.mounted = FALSE] : g \in @}])

\* The star of a DreamHistoryItem.
ToggleFavorite ==
  /\ Alive /\ Mounted(appState)
  /\ \E n \in DOMAIN allDreams, writeOk \in BOOLEAN :
       JournalStep(handleToggleFavorite(Did(World, "toggleFavorite", allDreams[n].id),
                                        allDreams[n].id, writeOk))

\* The star of the DreamAnalysis view: handleToggleFavorite of DreamAnalysis.
ViewToggleFavorite ==
  /\ appState = VIEWING /\ currentDream # NoDream
  /\ \E writeOk \in BOOLEAN :
       JournalStep(handleUpdateDream(Did(World, "updateDream", currentDream.id),
                                     [currentDream EXCEPT !.isFavorite = ~@],
                                     allDreams, writeOk))

\* handleRegenerate up to `await generateDreamImage`; the button is disabled
\* while a run of this DreamAnalysis is pending (isRegenerating).
Regenerate ==
  /\ appState = VIEWING /\ currentDream # NoDream
  /\ regens.started < MaxRegens
  /\ \A g \in regens.pending : ~g.mounted
  /\ JournalStep([Did(World, "regenerate", currentDream.id) EXCEPT
                    !.regens = [started |-> @.started + 1,
                                pending |-> @.pending \cup
                                  {[dream |-> currentDream, list |-> allDreams,
                                    mounted |-> TRUE]}]])

\* handleRegenerate after the await: onUpdateDream({...dream, imageUrl}).
handleRegenerateResolved(w, g, newImageUrl, writeOk) ==
  handleUpdateDream([w EXCEPT !.regens.pending = @ \ {g}],
                    [g.dream EXCEPT !.imageUrl = newImageUrl], g.list, writeOk)

RegenerateResolves(g) ==
  /\ g \in regens.pending
  /\ \E writeOk \in BOOLEAN :
       JournalStep(handleRegenerateResolved(Did(World, "updateDream", g.dream.id),
                                            g, 2, writeOk))

\* generateDreamImage threw: the catch block sets the error of DreamAnalysis.
RegenerateRejects(g) ==
  /\ g \in regens.pending
  /\ JournalStep([Did(World, "regenerateFailed", g.dream.id) EXCEPT
                    !.regens.pending = @ \ {g}])

JournalNext ==
  \/ RecordingStarts
  \/ RecordingCompletes
  \/ JournalSelectDream
  \/ JournalGoHome
  \/ ToggleFavorite
  \/ ViewToggleFavorite
  \/ Regenerate
  \/ \E a \in analyses : JournalImageSettles(a)
  \/ \E a \in analyses : JournalInterpretationSettles(a)
  \/ \E a \in analyses : JournalAnalysisResolved(a)
  \/ \E a \in analyses : JournalAnalysisRejected(a)
  \/ \E g \in regens.pending : RegenerateResolves(g)
  \/ \E g \in regens.pending : RegenerateRejects(g)

JournalSpec == JournalInit /\ [][JournalNext]_vars

----------------------------------------------------------------------------
(* Claims                                                                  *)

OwnedByMounted(k) == k # 0 /\ Mounted(appState) /\ runs[k].inst = cur

LiveStreams == {k \in Runs : runs[k].stream = "live"}
OpenSessions == {k \in Runs : runs[k].sess \in {"connecting", "open"}}

\* C1: at most one recording session is active at a time: never more than one
\* live microphone stream, never more than one remote session open or opening.
C1_AtMostOneActiveSession ==
  /\ Cardinality(LiveStreams) <= 1
  /\ Cardinality(OpenSessions) <= 1

\* C2: the string stopRecording passes to onRecordingComplete is the trimmed
\* concatenation of the final texts received since the recording started.
C2_StopDeliversTranscript ==
  (ev.op = "complete" /\ ev.k # 0) => ev.arg = Trim(runs[ev.k].said)

\* The entries of the stored list made by the analysis that has just resolved.
JustStored == {n \in DOMAIN storage.dreams : storage.dreams[n].id = now - 1}

\* C3: a completed recording with a non-empty transcript goes to analysis with
\* that transcript, and when its two requests have resolved exactly one stored
\* entry holds that transcript.
C3_RecordingBecomesOneEntry ==
  /\ (ev.op = "complete" /\ ev.k # 0 /\ Trim(runs[ev.k].said) # EmptyStr)
       => \E a \in analyses : a.rec = ev.k /\ a.transcription = Trim(runs[ev.k].said)
  /\ (ev.op = "analysisResolved" /\ Trim(runs[ev.k].said) # EmptyStr)
       => /\ Cardinality(JustStored) = 1
          /\ \A n \in JustStored :
               storage.dreams[n].transcription = Trim(runs[ev.k].said)

\* C4: the stored list and the in-memory list grow only in the step that follows
\* an analysis whose image and interpretation both succeeded, by an entry with
\* its transcript; the step that follows a failed analysis changes neither list,
\* sets the analysis error and returns to IDLE.
C4_InsertOnlyAfterBothSucceed ==
  [][/\ (Len(allDreams') > Len(allDreams) \/ Len(storage'.dreams) > Len(storage.dreams))
          => \E a \in analyses :
               /\ a.image = "ok" /\ a.interpretation = "ok"
               /\ a \notin analyses'
               /\ allDreams' = <<allDreams'[1]>> \o allDreams
               /\ allDreams'[1].transcription = a.transcription
               /\ storage'.dreams \in {storage.dreams, <<allDreams'[1]>> \o storage.dreams}
     /\ ev'.op = "analysisRejected"
          => /\ allDreams' = allDreams
             /\ storage' = storage
             /\ error' = ErrAnalysis
             /\ appState' = IDLE]_vars

\* C4 witness: a failed analysis has been reported while a dream list exists.
C4_Witness ==
  /\ ev.op = "analysisRejected"
  /\ appState = IDLE /\ error = ErrAnalysis
  /\ allDreams # <<>>

Released(r) ==
  /\ r.stream # "live"
  /\ r.sess \notin {"connecting", "open", "broken"}
  /\ r.ctx \notin {"running", "closing"}
  /\ r.scriptProcessor # "connected"
  /\ r.gainNode # "connected"
  /\ r.analyserNode # "connected"
  /\ ~r.raf

\* C5: when stopRecording has run to completion, the session of the recording it
\* ends is closed and everything that recording acquired is released.
C5_StopReleasesEverything ==
  (ev.op = "complete" /\ ev.k # 0) => Released(runs[ev.k])

\* C6: when onerror fires during an active recording the recorder tears down as
\* for a stop: it leaves the recording state and the live microphone stream of
\* that recording is stopped.
C6_ErrorTearsDown ==
  [][(ev'.op = "onerror" /\ OwnedByMounted(ev'.k) /\ isRecording
        /\ runs[ev'.k].stream = "live")
       => /\ ~isRecording'
          /\ runs'[ev'.k].stream = "stopped"]_vars

\* C7: after getUserMedia rejects, the recorder is not recording, the run has
\* opened no session and no start follows without a user action.
C7_DenialAbortsWithoutRetry ==
  (ev.op = "denied" /\ OwnedByMounted(ev.k))
    => /\ ~isRecording
       /\ runs[ev.k].sess = "none"
       /\ ~ev.auto

\* C8: after a microphone error during start the app state is IDLE and the dream
\* lists are as before.
C8_DenialResetsToIdle ==
  [][(ev'.op = "denied" /\ OwnedByMounted(ev'.k))
       => /\ appState' = IDLE
          /\ allDreams' = allDreams
          /\ storage' = storage]_vars

\* The state of run k apart from the status of its session, which the network
\* changes when it reports an error.
Apart(rs, k) == [rs EXCEPT ![k].sess = "-"]

\* C9: stopRecording called while no recording is active (the call onerror makes
\* when the recorder is not recording) releases nothing, delivers nothing and
\* changes no state of the recorder or the app.
C9_StopWhenIdleIsNoOp ==
  [][(ev'.op = "onerror" /\ OwnedByMounted(ev'.k) /\ ~isRecording)
       => /\ UNCHANGED <<appState, currentDream, allDreams, error, storage, now, cur,
                         isRecording, interimTranscription, refs, stops, analyses>>
          /\ Apart(runs', ev'.k) = Apart(runs, ev'.k)]_vars

\* C9 witness: onerror has fired on a recorder that is not recording and whose
\* microphone stream is live, so there was something a stop would release.
C9_Witness ==
  /\ ev.op = "onerror" /\ OwnedByMounted(ev.k)
  /\ ~isRecording
  /\ runs[ev.k].stream = "live"
  /\ refs[cur].mediaStream = ev.k

ReleasedOnce(r) == r.trackStops <= 1 /\ r.ctxCloses <= 1 /\ r.sessCloses <= 1

\* C10: no media stream, audio context or remote session is closed a second
\* time, by stopRecording or by stopVoiceRecording.
C10_ReleasesOnlyOnce ==
  /\ \A k \in Runs : ReleasedOnce(runs[k])
  /\ \A k \in VoiceRuns : ReleasedOnce(chat.runs[k])

\* C11: a run of stopRecording that was suspended at an await and is resumed
\* either goes on to its next release step (from the closed audio context to the
\* session) or ends by delivering the transcript to onRecordingComplete.
C11_StopAlwaysDelivers ==
  [][\A s \in stops \ stops' :
       \/ s.pc = "context" /\ \E t \in stops' \ stops :
                                t.pc = "session" /\ t.rec = s.rec /\ t.inst = s.inst
       \/ ev'.op = "complete" /\ ev'.k = s.rec]_vars

\* The place of a release step in the order cancel frame, stop tracks,
\* disconnect nodes, close context, close session.
Rank(step) ==
  CASE step = "frame" -> 1 [] step = "tracks" -> 2 [] step = "scriptProcessor" -> 3
    [] step = "gainNode" -> 4 [] step = "analyserNode" -> 5
    [] step = "context" -> 6 [] step = "session" -> 7

InOrder(log) == \A m, n \in DOMAIN log : m < n => Rank(log[m]) < Rank(log[n])

\* C12: the release steps of one stopRecording run are made in the order cancel
\* frame, stop tracks, disconnect nodes, close context, close session, in a run
\* that has ended and in a run that is suspended at an await; the context it
\* closes is closed before it goes on to the session.
C12_ReleaseOrder ==
  /\ ev.op = "complete" => InOrder(ev.log)
  /\ \A s \in stops :
       /\ InOrder(s.did)
       /\ s.pc = "context" => \A n \in DOMAIN s.did : Rank(s.did[n]) < 6
       /\ s.pc = "session" => \A n \in DOMAIN s.did : Rank(s.did[n]) < 7
       /\ (s.pc = "session" /\ s.did # <<>> /\ s.did[Len(s.did)] = "context")
            => \E k \in Runs : runs[k].inst = s.inst /\ runs[k].ctx = "closed"

\* C12 witness: a stopRecording run has ended after making all seven steps.
C12_Witness ==
  /\ ev.op = "complete"
  /\ ev.log = <<"frame", "tracks", "scriptProcessor", "gainNode", "analyserNode",
                "context", "session">>

\* The texts of a list put end to end, and put end to end with a space after each.
RECURSIVE Concat(_)
Concat(texts) == IF texts = <<>> THEN <<>> ELSE Head(texts) \o Concat(Tail(texts))

RECURSIVE SpaceJoin(_)
SpaceJoin(texts) ==
  IF texts = <<>> THEN <<>> ELSE Head(texts) \o <<" ">> \o SpaceJoin(Tail(texts))

\* The recording in progress on instance i: its latest run, until it is over.
Current(i) == LatestRun(World, i)

\* C13 as stated: the committed transcript of a recording is the texts of the
\* final messages received since it started, put end to end.
C13_TranscriptIsConcatenation ==
  \A i \in Insts :
    (Current(i) # 0 /\ ~runs[Current(i)].over)
      => refs[i].transcription = Concat(runs[Current(i)].heard)

\* C13 amended: the committed transcript of a recording is the texts of the
\* final messages received since it started, in receipt order, each followed by
\* one space (interim texts add nothing); a step that commits a final text on
\* the mounted recorder leaves the interim fragment empty.
C13_TranscriptIsSpacedConcatenation ==
  [][/\ \A i \in Insts :
          (LatestRun(World, i)' # 0 /\ ~runs'[LatestRun(World, i)'].over)
            => refs'[i].transcription = SpaceJoin(runs'[LatestRun(World, i)'].heard)
     /\ (Mounted(appState) /\ Len(refs'[cur].transcription) > Len(refs[cur].transcription))
          => interimTranscription' = EmptyStr]_vars

\* C13 witness: two final texts have been committed in a recording in progress,
\* after an interim text was shown.
C13_Witness ==
  /\ Mounted(appState) /\ isRecording
  /\ Current(cur) # 0 /\ ~runs[Current(cur)].over
  /\ Len(runs[Current(cur)].heard) = 2
  /\ refs[cur].transcription = SpaceJoin(runs[Current(cur)].heard)
  /\ interimTranscription = EmptyStr

\* The history list as rendered.
HistoryView == sortedDreams(World).view

Occurrences(list, d) == Cardinality({n \in DOMAIN list : list[n] = d})

\* C14: the history view holds the entries of the in-memory list, each as often;
\* no non-favorite entry stands before a favorite one; of two entries with the
\* same favorite status the one with the older date does not stand first; and
\* the in-memory list is as it was before the view was computed.
C14_HistoryViewOrder ==
  /\ Len(HistoryView) = Len(allDreams)
  /\ \A n \in DOMAIN allDreams :
       Occurrences(HistoryView, allDreams[n]) = Occurrences(allDreams, allDreams[n])
  /\ \A m, n \in DOMAIN HistoryView :
       m < n => /\ ~(~HistoryView[m].isFavorite /\ HistoryView[n].isFavorite)
                /\ HistoryView[m].isFavorite = HistoryView[n].isFavorite
                     => HistoryView[m].date >= HistoryView[n].date
  /\ sortedDreams(World).w.allDreams = allDreams

\* C14 witness: an older favorite stands before a newer non-favorite entry in the
\* view, after two entries of the same status in the order newer, older.
C14_Witness ==
  /\ Len(HistoryView) = 3
  /\ HistoryView[1].isFavorite /\ ~HistoryView[2].isFavorite
  /\ HistoryView[1].date < HistoryView[2].date
  /\ HistoryView[2].date > HistoryView[3].date
  /\ HistoryView # allDreams

C16_StoreMirrorsHistory ==
  /\ storage.dreams = allDreams
  /\ [][(storage.dreams = allDreams /\ ev'.wrote # "failed")
          => storage'.dreams = allDreams']_vars

\* C16 witness: an insert, a favorite toggle and an image update have been
\* written, and the stored list is the in-memory list of three entries.
C16_Witness ==
  /\ ev.op = "updateDream" /\ ev.wrote = "ok"
  /\ Len(allDreams) = 3 /\ storage.dreams = allDreams
  /\ \E n \in DOMAIN allDreams : allDreams[n].isFavorite
  /\ \E n \in DOMAIN allDreams : allDreams[n].imageUrl = 2

InMemory(id) == \E n \in DOMAIN allDreams : allDreams[n].id = id
Stored(id) == \E n \in DOMAIN storage.dreams : storage.dreams[n].id = id

\* C17: no exception of a storage read or write leaves the storage service, and
\* after a segment whose write failed the in-memory update and the state
\* transition are made: the new dream heads the history and is viewed without
\* being stored, a toggled or updated entry is in the history as updated.
C17_StorageFailureNeverPropagates ==
  /\ ev.op # "uncaught"
  /\ (ev.op = "analysisResolved" /\ ev.wrote = "failed")
       => /\ appState = VIEWING
          /\ allDreams # <<>> /\ allDreams[1] = currentDream
          /\ ~Stored(currentDream.id)
  /\ (ev.op = "updateDream" /\ ev.wrote = "failed" /\ InMemory(currentDream.id))
       => \E n \in DOMAIN allDreams : allDreams[n] = currentDream

\* The fields of an entry that are set once.
SameOrigin(d, e) ==
  /\ d.date = e.date
  /\ d.transcription = e.transcription
  /\ d.interpretation = e.interpretation

KeepsOrigins(before, after) ==
  \A m \in DOMAIN before, n \in DOMAIN after :
    before[m].id = after[n].id => SameOrigin(before[m], after[n])

\* C18: no step changes the date, transcript or interpretation of an entry, in
\* memory or in storage; a favorite toggle or an image update of the entry with
\* id ev'.k keeps every entry of the in-memory list and changes no other entry.
C18_OnlyTargetChanges ==
  [][/\ KeepsOrigins(allDreams, allDreams')
     /\ KeepsOrigins(storage.dreams, storage'.dreams)
     /\ ev'.op \in {"toggleFavorite", "updateDream"}
          => /\ Len(allDreams') = Len(allDreams)
             /\ \A n \in DOMAIN allDreams :
                  /\ allDreams'[n].id = allDreams[n].id
                  /\ allDreams[n].id # ev'.k => allDreams'[n] = allDreams[n]]_vars

\* The calls of generateDreamAnalysis that settle in a step, and those it starts.
Leaving == analyses \ analyses'
Entering == analyses' \ analyses

\* C19: a call of generateDreamAnalysis starts with both requests pending; it
\* yields a result only when the image and the interpretation have both
\* succeeded, and the entry made of the result has both; it fails, yielding
\* nothing, only when one of the two has failed.
C19_AnalysisJoin ==
  [][/\ \A a \in Entering :
          \/ a.image = "pending" /\ a.interpretation = "pending"
          \/ \E b \in Leaving : b.rec = a.rec /\ b.transcription = a.transcription
     /\ ev'.op = "analysisResolved"
          => \E a \in Leaving :
               /\ a.image = "ok" /\ a.interpretation = "ok"
               /\ currentDream'.transcription = a.transcription
               /\ currentDream'.imageUrl = 1 /\ currentDream'.interpretation = "text"
     /\ ev'.op = "analysisRejected"
          => /\ \E a \in Leaving : a.image = "fail" \/ a.interpretation = "fail"
             /\ allDreams' = allDreams /\ currentDream' = currentDream
             /\ storage' = storage]_vars

\* C19 witness: a call has yielded its result after the interpretation settled
\* before the image.
C19_Witness ==
  /\ ev.op = "analysisResolved" /\ ev.arg = <<"interpretation">>
  /\ appState = VIEWING /\ currentDream.imageUrl = 1

\* What a teardown leaves of a run: the microphone stream is stopped, the audio
\* context is closed or closing, and the remote session is closed unless its
\* close is still awaited (closing).
LetGo(r, closing) ==
  /\ r.stream # "live"
  /\ r.ctx # "running"
  /\ r.sess \in {"connecting", "open", "broken"} => closing

\* C20: when the DreamRecorder or the ChatInterface is unmounted while a capture
\* session of it holds a live microphone, the teardown releases the stream, the
\* audio context and the remote session of that capture.
C20_TeardownReleases ==
  [][/\ (Mounted(appState) /\ ~Mounted(appState'))
          => \A k \in Runs :
               (runs[k].inst = cur /\ runs[k].stream = "live")
                 => LetGo(runs'[k], \E s \in stops' : s.rec = k)
     /\ (chat.mounted /\ ~chat'.mounted)
          => \A k \in VoiceRuns :
               chat.runs[k].stream = "live"
                 => LetGo(chat'.runs[k], chat'.stops # <<>>)]_vars

\* The analysis attempts a step issues: the calls that enter with both requests
\* pending.
Issued == {a \in Entering : a.image = "pending" /\ a.interpretation = "pending"}

\* C21: an analysis attempt is issued only by the step in which a recording
\* completes with a non-empty transcript, one attempt for that transcript; the
\* step that follows a failed analysis shows the one analysis error and issues
\* no request, and no other step issues one.
C21_NoAutomaticRetry ==
  [][/\ Issued # {}
          => /\ ev'.op = "complete"
             /\ Trim(ev'.arg) # EmptyStr
             /\ Issued = {[rec |-> ev'.k, transcription |-> ev'.arg, image |-> "pending",
                           interpretation |-> "pending", first |-> "none"]}
     /\ ev'.op = "analysisRejected"
          => /\ error' = ErrAnalysis
             /\ analyses' \subseteq analyses]_vars

\* C21 witness: an analysis has failed, the error is shown on the IDLE view with
\* its recorder mounted and not recording, and no attempt is in flight.
C21_Witness ==
  /\ ev.op = "analysisRejected"
  /\ appState = IDLE /\ error = ErrAnalysis
  /\ ~isRecording /\ analyses = {}
  /\ \A k \in Runs : runs[k].phase # "gum"

\* The committed transcript of instance i.
Committed(i) == refs[i].transcription

\* C22: a non-final message leaves the committed transcript of every recorder as
\* it was and, on the mounted recorder, makes its text the interim fragment; the
\* committed transcript changes only by being emptied or by a final message, and
\* stopRecording delivers the committed transcript, trimmed: what was received
\* as interim only is never delivered.
C22_InterimIsNotCommitted ==
  [][/\ ev'.op = "interim"
          => /\ \A i \in Insts : Committed(i)' = Committed(i)
             /\ OwnedByMounted(ev'.k) => interimTranscription' = ev'.arg
             /\ ~OwnedByMounted(ev'.k) => interimTranscription' = interimTranscription
     /\ \A i \in Insts :
          \/ Committed(i)' \in {Committed(i), EmptyStr}
          \/ /\ msgs' = msgs + 1 /\ ev'.op # "interim"
             /\ \E text \in Texts : Committed(i)' = Committed(i) \o text \o <<" ">>
     /\ (ev'.op = "complete" /\ ev'.k # 0)
          => ev'.arg = Trim(Committed(runs[ev'.k].inst))]_vars

\* C22 witness: an interim text has replaced the interim fragment of a recording
\* whose committed transcript holds a final text.
C22_Witness ==
  /\ ev.op = "interim" /\ OwnedByMounted(ev.k) /\ isRecording
  /\ ev.arg = <<"a">> /\ interimTranscription = <<"a">>
  /\ Committed(cur) = <<"a", " ">>

\* C23: while the gain node of a recording of the mounted recorder is connected,
\* its gain is the sensitivity the slider shows.
C23_GainIsSensitivity ==
  \A k \in Runs :
    (OwnedByMounted(k) /\ runs[k].gainNode = "connected") => runs[k].gain = sensitivity

\* The product of sample n/SampleDen and its scale, times SampleDen.
Scaled(n) == IF n < 0 THEN n * 32768 ELSE n * 32767

\* t is the quotient p / SampleDen with its fraction dropped.
IsTruncation(t, p) ==
  IF p >= 0 THEN SampleDen * t <= p /\ p < SampleDen * (t + 1)
            ELSE SampleDen * (t - 1) < p /\ p <= SampleDen * t

\* C24: every element createBlob writes is a 16-bit signed integer that differs
\* by a multiple of 2^16 from the sample times 32768 (negative) or 32767
\* (non-negative) truncated toward zero, and is that number itself for a sample
\* in [-1,1]; -1 gives -32768, 0 gives 0 and 1 gives 32767; two bytes are made
\* of each element.
C24_SampleConversion ==
  pcm.encoded =>
    /\ DOMAIN pcm.int16 = DOMAIN pcm.data
    /\ Len(pcm.bytes) = 2 * Len(pcm.data)
    /\ \A i \in DOMAIN pcm.data :
         LET n == pcm.data[i]
             v == pcm.int16[i]
         IN /\ v \in -32768..32767
            /\ \E j \in -3..3 :
                 /\ IsTruncation(v + 65536 * j, Scaled(n))
                 /\ (n >= 0 - SampleDen /\ n <= SampleDen) => j = 0
            /\ n = 0 - SampleDen => v = -32768
            /\ n = 0 => v = 0
            /\ n = SampleDen => v = 32767
            /\ pcm.bytes[2 * i - 1] + 256 * pcm.bytes[2 * i] = v % 65536

\* C24 witness: a buffer with the sample -1 and the sample 5/4 has been
\* converted; 5/4 of 32767 is 40958, which is stored as 40958 - 65536.
C24_Witness ==
  /\ pcm.encoded
  /\ pcm.data = <<0 - SampleDen, SampleDen + 1>>
  /\ pcm.int16[1] = -32768
  /\ pcm.int16[2] = Truncate((SampleDen + 1) * 32767, SampleDen) - 65536

\* A microphone track is live, audio frames are being sent or the remote session
\* is open.
StillLive(r) ==
  \/ r.stream = "live"
  \/ r.scriptProcessor = "connected"
  \/ r.sess = "open"

\* C25: while the mounted recorder is not recording and no stopRecording of it
\* is in progress, no run of it has a live track, sends frames or has an open
\* session; the same for the voice input of the chat.
C25_NothingLiveWhenStopped ==
  /\ (Mounted(appState) /\ ~isRecording /\ stops = {})
       => \A k \in Runs : runs[k].inst = cur => ~StillLive(runs[k])
  /\ (chat.mounted /\ ~chat.isVoiceRecording /\ chat.stops = <<>>)
       => \A k \in VoiceRuns : ~StillLive(chat.runs[k])

\* C26: an entry that is in the stored list (of a store that can be read and
\* parses) is, after every step, still in the stored list and in the in-memory
\* list, by its id.
C26_NoEntryIsRemoved ==
  [][(storage.parses /\ storage.access)
       => \A n \in DOMAIN storage.dreams :
            /\ Stored(storage.dreams[n].id)'
            /\ InMemory(storage.dreams[n].id)']_vars

\* The runs of handleRegenerate that end in a step.
Finishing ==
  {g \in regens.pending : \A h \in regens.pending' : h.dream # g.dream \/ h.list # g.list}

\* after is before with, at most, another image.
OnlyImageDiffers(before, after) == after = [before EXCEPT !.imageUrl = after.imageUrl]

\* C27: a regeneration that succeeds leaves its entry in the in-memory list with
\* nothing but the image changed, and so it is written to the stored list when
\* the write is made: a favorite flag toggled meanwhile stays as set; one that
\* fails changes neither list nor the dream viewed; either way the run is over.
C27_RegenerationChangesOnlyImage ==
  [][\A g \in Finishing :
       /\ ev'.op = "updateDream"
            => /\ \A n \in DOMAIN allDreams :
                    allDreams[n].id = g.dream.id
                      => \E m \in DOMAIN allDreams' :
                           OnlyImageDiffers(allDreams[n], allDreams'[m])
               /\ ev'.wrote = "ok"
                    => \A n \in DOMAIN allDreams :
                         allDreams[n].id = g.dream.id
                           => \E m \in DOMAIN storage'.dreams :
                                OnlyImageDiffers(allDreams[n], storage'.dreams[m])
       /\ ev'.op # "updateDream"
            => /\ allDreams' = allDreams
               /\ storage' = storage
               /\ currentDream' = currentDream
       /\ g \notin regens.pending']_vars

\* The runs of startRecording that begin in a step.
Starting == {k \in Runs : runs[k].phase = "unused" /\ runs'[k].phase # "unused"}

\* C28: a step that starts a recording leaves the committed transcript of its
\* recorder and the interim fragment empty, and a final message is committed
\* only when it comes from the session of the latest recording of its recorder.
C28_TranscriptIsOfThisRecording ==
  [][/\ \A k \in Starting :
          /\ refs'[runs'[k].inst].transcription = EmptyStr
          /\ interimTranscription' = EmptyStr
     /\ ev'.op = "final"
          => \/ ev'.k = LatestRun(World, runs[ev'.k].inst)
             \/ refs'[runs[ev'.k].inst].transcription = Committed(runs[ev'.k].inst)]_vars

\* C29: the step in which stopRecording delivers a transcript that is empty
\* once trimmed issues no analysis, leaves the in-memory and the stored list as
\* they were, sets the empty-recording error and ends with the app in IDLE.
C29_EmptyRecordingIsRejected ==
  [][(ev'.op = "complete" /\ Trim(ev'.arg) = EmptyStr)
       => /\ analyses' = analyses
          /\ allDreams' = allDreams
          /\ storage' = storage
          /\ now' = now
          /\ error' = ErrEmpty
          /\ appState' = IDLE]_vars

\* C29 witness: a recorder whose committed transcript is two spaces has
\* completed, and the app shows the empty-recording error in IDLE.
C29_Witness ==
  /\ ev.op = "complete" /\ ev.k # 0 /\ ev.arg = EmptyStr
  /\ Committed(runs[ev.k].inst) = <<" ", " ">>
  /\ error = ErrEmpty /\ appState = IDLE

\* C30: in VIEWING there is a current dream, and in ANALYZING an analysis is in
\* flight; ANALYZING is entered only by the step in which a recording completes
\* with a non-empty transcript, which issues the analysis; the step in which an
\* analysis resolves ends in VIEWING with a current dream and the step in which
\* it is rejected ends in IDLE.
C30_AppStateMachine ==
  /\ [](appState \in {IDLE, RECORDING, ANALYZING, VIEWING})
  /\ [](appState = VIEWING => currentDream # NoDream)
  /\ [](appState = ANALYZING => analyses # {})
  /\ [][/\ (appState' = ANALYZING /\ appState # ANALYZING)
             => /\ ev'.op = "complete"
                /\ \E a \in Issued : Trim(a.transcription) # EmptyStr
        /\ ev'.op = "analysisResolved"
             => appState' = VIEWING /\ currentDream' # NoDream
        /\ ev'.op = "analysisRejected" => appState' = IDLE]_vars

\* C30 witness: a dream made by an analysis of this visit is viewed, after its
\* image was regenerated.
C30_Witness ==
  /\ appState = VIEWING /\ ev.op = "updateDream"
  /\ currentDream.id >= 1 /\ currentDream.imageUrl = 2
  /\ analyses = {}

\* The roles of a message list alternate user, model, starting with user.
Alternates(ms) ==
  \A i \in DOMAIN ms : ms[i].role = IF i % 2 = 1 THEN "user" ELSE "model"

\* The input is blank, a request is loading or there is no chat session.
Refused == Trim(chat.input) = EmptyStr \/ chat.isLoading \/ chat.chatRef = 0

\* What a chat send changes: the messages, the input, isLoading and the requests
\* in flight.
Sending(c) == <<c.messages, c.input, c.isLoading, c.requests>>

\* C31: in the chat, a handleSend that reaches its guard while the input is
\* blank, a request is loading or there is no chat session sends nothing and
\* leaves the messages, the input and isLoading as they are; at most one chat
\* request is in flight at any time; and the messages alternate user, model,
\* starting with a user message.
C31_OneRequestAtATime ==
  /\ [][(chat'.op \in {"send", "sendResumed"} /\ Refused)
          => Sending(chat') = Sending(chat)]_vars
  /\ [](Len(chat.requests) <= 1)
  /\ [](Alternates(chat.messages))

\* A step in which a handleSend passes its guard and calls sendMessage.
Accepted ==
  /\ chat'.op \in {"send", "sendResumed"}
  /\ Len(chat'.requests) = Len(chat.requests) + 1

\* The message list after the step is the one before it and one message of
\* the role, with one of the texts.
AppendsOne(role, texts) ==
  \E t \in texts : chat'.messages = Append(chat.messages, [role |-> role, text |-> t])

\* C32: in a mounted chat, every accepted send leaves no voice recording
\* active, appends exactly one user message, clears the input and sets
\* isLoading; when the request settles exactly one model message is appended,
\* the reply on success and the fixed apology on failure, and isLoading is
\* reset; and isLoading is true exactly while a request is in flight.
C32_LoadingWhileInFlight ==
  /\ [][(Accepted /\ chat'.mounted)
          => /\ ~chat'.isVoiceRecording
             /\ AppendsOne("user", Texts)
             /\ chat'.input = EmptyStr
             /\ chat'.isLoading]_vars
  /\ [][(chat'.op = "resolved" /\ chat.mounted)
          => AppendsOne("model", Replies) /\ ~chat'.isLoading]_vars
  /\ [][(chat'.op = "rejected" /\ chat.mounted)
          => AppendsOne("model", {Apology}) /\ ~chat'.isLoading]_vars
  /\ [](chat.mounted => (chat.isLoading <=> chat.requests # <<>>))

====
